---- MODULE Spec2Model ----
(***************************************************************************)
(* State-machine model of the Neko remote-browser client                   *)
(* (src/src/lib/neko/client.ts), of the reference signaling host           *)
(* (server.js in src/REPLIT_SETUP.md) and of the environment that drives   *)
(* them: the browser's WebSocket, RTCPeerConnection and RTCDataChannel     *)
(* objects and the timers, whose callbacks run one at a time on the event  *)
(* loop.  One action is one callback or one public method call, run to     *)
(* completion together with the microtasks it queues.  The wire codec and  *)
(* the keymap (src/src/lib/neko/protocol.ts), the derivation of the        *)
(* signaling endpoint and the state kept by the useNeko hook               *)
(* (src/src/hooks/use-neko.ts) are modelled beside it.                     *)
(***************************************************************************)
EXTENDS Integers, Sequences, FiniteSets, TLC

(* ------------------------------ bounds -------------------------------- *)
\* WebSockets (connection attempts) created in one run.
MaxAtt == 2
\* RTCPeerConnections (offers handled) in one run, and how many of them
\* may be open at once.
MaxPc == 2
MaxLivePeers == 1
\* Clients of the reference host, and messages in flight per direction.
NumClients == 2
MaxQueue == 2

(* ------------------------- program constants -------------------------- *)
DefaultWidth == 1280
DefaultHeight == 720
maxReconnectAttempts == 5

Null == "null"
ErrWebSocket == "WebSocket connection failed"
ErrTimeout == "Connection timeout"
ReasonClosed == "Connection closed"
ReasonWebRTC == "WebRTC connection failed"

Sockets == 1..MaxAtt
Peers == 1..MaxPc
Clients == 1..NumClients
\* The resolutions a screen/resolution message may carry.
Resolutions == {<<1920, 1080>>}
\* The configurations connect() is called with: with or without a password.
Configs == {"withPassword", "noPassword"}

VARIABLES
    state,              \* NekoClient.state : NekoState
    config,             \* NekoClient.config (Null or a member of Configs)
    ws,                 \* NekoClient.ws: 0 (null) or the socket referenced
    pc,                 \* NekoClient.pc: 0 (null) or the peer referenced
    dataChannel,        \* NekoClient.dataChannel: 0 or the owning peer
    memberId,           \* NekoClient.memberId
    reconnectAttempts,  \* NekoClient.reconnectAttempts
    sockets,            \* every WebSocket created, with the promise and
                        \* deadline timer of its establishConnection call
    peers,              \* every RTCPeerConnection created, with its data
                        \* channel and its handleSignalProvide continuation
    reconnectTimers,    \* pending auto-reconnect timeouts
    last,               \* what the last step did: operation, callbacks,
                        \* messages sent, resources closed
    host,               \* reference host with NumClients clients
    wire,               \* one input event on its way from the client's
                        \* encoder to the host's handleInputEvent
    call,               \* one call of a pure function of the client:
                        \* getKeysym or buildWebSocketUrl
    mirror              \* the NekoState kept by the useNeko hook that
                        \* owns the client, or NoHook

vars == <<state, config, ws, pc, dataChannel, memberId, reconnectAttempts,
          sockets, peers, reconnectTimers, last, host, wire, call, mirror>>

clientVars == <<state, config, ws, pc, dataChannel, memberId,
                reconnectAttempts, sockets, peers, reconnectTimers, last,
                mirror>>

(* ------------------------- initial values ----------------------------- *)
DefaultState ==
    [connected |-> FALSE, connecting |-> FALSE, controlling |-> FALSE,
     videoWidth |-> DefaultWidth, videoHeight |-> DefaultHeight,
     error |-> Null]

NoSocket ==
    [readyState |-> "none", promise |-> "none", reason |-> Null,
     timer |-> FALSE, viaConnect |-> FALSE, offered |-> FALSE]

NoPeer ==
    [conn |-> "none", sig |-> "none", dc |-> "none", step |-> "none",
     att |-> 0, target |-> 0, answered |-> FALSE]

\* A peer connection after close(): it fires no more events and settles no
\* more promises, so a handler awaiting one of its operations never
\* resumes; none of its other fields is read again.
ClosedPeer == [NoPeer EXCEPT !.conn = "closed"]

NoTrace(op, id) ==
    [op |-> op, id |-> id, msg |-> Null, emitted |-> <<>>, wsSent |-> <<>>,
     dcSent |-> <<>>, closes |-> <<>>, opened |-> 0, openedAfter |-> 0,
     again |-> FALSE, held |-> FALSE]

(* ------------------- the useNeko hook (use-neko.ts) ------------------- *)
\* A client constructed without callbacks has no hook state.
NoHook == [hook |-> "none"]

\* The setState updater of the callback the hook registered for an event.
\* A rejected connect() calls onError and then rejects the promise the
\* hook's connect awaits, whose catch block sets connecting and error too.
HookCallback(m, e) ==
    CASE e.name = "connected" ->
             [m EXCEPT !.connected = TRUE, !.connecting = FALSE]
      [] e.name = "disconnected" ->
             [m EXCEPT !.connected = FALSE, !.connecting = FALSE,
                       !.controlling = FALSE, !.error = e.arg]
      [] e.name = "error" ->
             [m EXCEPT !.error = e.arg, !.connecting = FALSE]
      [] e.name = "controlGranted" -> [m EXCEPT !.controlling = TRUE]
      [] e.name = "controlReleased" -> [m EXCEPT !.controlling = FALSE]
      [] e.name = "resize" ->
             [m EXCEPT !.videoWidth = e.arg[1], !.videoHeight = e.arg[2]]
      [] OTHER -> m

RECURSIVE HookCallbacks(_, _)
HookCallbacks(m, es) ==
    IF es = <<>> THEN m
    ELSE HookCallbacks(HookCallback(m, Head(es)), Tail(es))

\* The hook's state after a step of its client: the hook's own connect,
\* disconnect and releaseControl set state before or after calling the
\* client; every callback the client made has run its updater.
UseNeko(m, trace) ==
    IF m = NoHook THEN m
    ELSE LET m1 == IF trace.op = "connect"
                   THEN [m EXCEPT !.connecting = TRUE, !.error = Null]
                   ELSE m
             m2 == HookCallbacks(m1, trace.emitted)
         IN  IF trace.op = "disconnect" THEN DefaultState
             ELSE IF trace.op = "releaseControl"
                  THEN [m2 EXCEPT !.controlling = FALSE]
             ELSE m2

(* ------------- the client as one value, and its commit ---------------- *)
\* The client's fields and the objects it created, with the trace of the
\* step being taken.
Cur(op, id) ==
    [state |-> state, config |-> config, ws |-> ws, pc |-> pc,
     dataChannel |-> dataChannel, memberId |-> memberId,
     reconnectAttempts |-> reconnectAttempts, sockets |-> sockets,
     peers |-> peers, reconnectTimers |-> reconnectTimers,
     trace |-> NoTrace(op, id)]

Commit(w) ==
    /\ state' = w.state
    /\ config' = w.config
    /\ ws' = w.ws
    /\ pc' = w.pc
    /\ dataChannel' = w.dataChannel
    /\ memberId' = w.memberId
    /\ reconnectAttempts' = w.reconnectAttempts
    /\ sockets' = w.sockets
    /\ peers' = w.peers
    /\ reconnectTimers' = w.reconnectTimers
    /\ last' = w.trace
    /\ mirror' = UseNeko(mirror, w.trace)
    /\ UNCHANGED <<host, wire, call>>

(* ----------------------- private helper methods ----------------------- *)
Emit(w, name, arg) ==
    [w EXCEPT !.trace.emitted = Append(@, [name |-> name, arg |-> arg])]

\* send(): a text frame goes out on the socket this.ws refers to, and only
\* when that socket is OPEN.
Send(w, event) ==
    IF w.ws # 0 /\ w.sockets[w.ws].readyState = "open"
    THEN [w EXCEPT !.trace.wsSent = Append(@, [to |-> w.ws, event |-> event])]
    ELSE w

\* Mutant of SendBinary: the readyState of the data channel is not looked at.
SendBinary_Unchecked(w, data) ==
    IF w.dataChannel # 0
    THEN [w EXCEPT !.trace.dcSent = Append(@, data)]
    ELSE w

\* sendBinary(): dropped unless the referenced data channel is open.
SendBinary(w, data) ==
    IF w.dataChannel # 0 /\ w.peers[w.dataChannel].dc = "open"
    THEN [w EXCEPT !.trace.dcSent = Append(@, data)]
    ELSE w

\* Mutant of Cleanup: the socket is closed first, the data channel last.
Cleanup_SocketFirst(w) ==
    LET w1 == IF w.ws # 0
              THEN [w EXCEPT !.sockets[w.ws].readyState =
                                 IF @ = "connecting" THEN "failing"
                                 ELSE IF @ = "open" THEN "closing" ELSE @,
                             !.trace.closes = Append(@, "ws"),
                             !.ws = 0]
              ELSE w
        w2 == IF w1.pc # 0
              THEN [w1 EXCEPT !.peers[w1.pc] = ClosedPeer,
                              !.trace.closes = Append(@, "pc"),
                              !.pc = 0]
              ELSE w1
        w3 == IF w2.dataChannel # 0
              THEN [w2 EXCEPT !.peers[w2.dataChannel].dc =
                                  IF @ = "open" THEN "closed" ELSE @,
                              !.trace.closes = Append(@, "dataChannel"),
                              !.dataChannel = 0]
              ELSE w2
    IN  w3

\* cleanup(): close and forget the data channel, the peer connection and
\* the socket, in that order.  Closing a peer connection closes its data
\* channel; a socket that is closed keeps its handlers and delivers its
\* close event later, after an error event when close() found it still
\* CONNECTING ("failing": the connection is failed, not closed cleanly).
Cleanup(w) ==
    LET w1 == IF w.dataChannel # 0
              THEN [w EXCEPT !.peers[w.dataChannel].dc = "closed",
                             !.trace.closes = Append(@, "dataChannel"),
                             !.dataChannel = 0]
              ELSE w
        w2 == IF w1.pc # 0
              THEN [w1 EXCEPT !.peers[w1.pc] = ClosedPeer,
                              !.trace.closes = Append(@, "pc"),
                              !.pc = 0]
              ELSE w1
        w3 == IF w2.ws # 0
              THEN [w2 EXCEPT !.sockets[w2.ws].readyState =
                                  IF @ = "connecting" THEN "failing"
                                  ELSE IF @ = "open" THEN "closing" ELSE @,
                              !.trace.closes = Append(@, "ws"),
                              !.ws = 0]
              ELSE w2
    IN  w3

\* Mutant of HandleDisconnect: onDisconnected is called whether or not the
\* session was connected.
HandleDisconnect_AlwaysEmits(w, reason) ==
    LET wasConnected == w.state.connected
        w1 == [w EXCEPT !.state.connected = FALSE,
                        !.state.connecting = FALSE,
                        !.state.controlling = FALSE]
        w3 == Cleanup(Emit(w1, "disconnected", reason))
    IN  IF /\ wasConnected
           /\ w3.config # Null
           /\ w3.reconnectAttempts < maxReconnectAttempts
        THEN [w3 EXCEPT !.reconnectAttempts = @ + 1,
                        !.reconnectTimers = @ + 1]
        ELSE w3

\* handleDisconnect(reason)
HandleDisconnect(w, reason) ==
    LET wasConnected == w.state.connected
        w1 == [w EXCEPT !.state.connected = FALSE,
                        !.state.connecting = FALSE,
                        !.state.controlling = FALSE]
        w2 == IF wasConnected THEN Emit(w1, "disconnected", reason) ELSE w1
        w3 == Cleanup(w2)
    IN  IF /\ wasConnected
           /\ w3.config # Null
           /\ w3.reconnectAttempts < maxReconnectAttempts
        THEN [w3 EXCEPT !.reconnectAttempts = @ + 1,
                        !.reconnectTimers = @ + 1]
        ELSE w3

\* The socket the next "new WebSocket" creates.
FreeSockets(w) == {a \in Sockets : w.sockets[a].readyState = "none"}
NewSocket(w) == CHOOSE a \in FreeSockets(w) : \A b \in FreeSockets(w) : a <= b

\* establishConnection() with a config: a new socket replaces this.ws, with
\* its own promise and its own 10 s timer.  viaConnect tells whether the
\* promise is awaited by connect() (try/catch) or by the reconnect timer
\* (.catch(console.error)).
EstablishConnection(w, viaConnect) ==
    LET a == NewSocket(w)
    IN  [w EXCEPT !.ws = a,
                  !.trace.opened = a,
                  !.trace.openedAfter = Len(w.trace.closes),
                  !.sockets[a] = [readyState |-> "connecting",
                                  promise |-> "pending", reason |-> Null,
                                  timer |-> TRUE, viaConnect |-> viaConnect,
                                  offered |-> FALSE]]

\* Mutant of ConnectCatch: the catch block forgets to clear connecting.
ConnectCatch_KeepConnecting(w, message) ==
    Emit([w EXCEPT !.state.error = message], "error", message)

\* The catch block of connect(), run when its establishConnection promise
\* rejects.
ConnectCatch(w, message) ==
    Emit([w EXCEPT !.state.connecting = FALSE, !.state.error = message],
         "error", message)

\* reject(new Error(message)) of socket a's promise: a settled promise stays
\* as it is; a pending one rejects, and connect()'s catch block then runs.
Reject(w, a, message) ==
    IF w.sockets[a].promise # "pending" THEN w
    ELSE LET w1 == [w EXCEPT !.sockets[a].promise = "rejected",
                             !.sockets[a].reason = message,
                             !.sockets[a].timer = FALSE]
         IN  IF w.sockets[a].viaConnect THEN ConnectCatch(w1, message) ELSE w1

\* resolve() of socket a's promise.
Resolve(w, a) ==
    IF w.sockets[a].promise # "pending" THEN w
    ELSE [w EXCEPT !.sockets[a].promise = "resolved",
                   !.sockets[a].timer = FALSE]

\* Mutant of DisconnectBody: every call reports a disconnection.
DisconnectBody_Emits(w) ==
    LET w1 == Cleanup([w EXCEPT !.config = Null])
    IN  Emit([w1 EXCEPT !.state = DefaultState], "disconnected", Null)

\* disconnect()
DisconnectBody(w) ==
    LET w1 == Cleanup([w EXCEPT !.config = Null])
    IN  [w1 EXCEPT !.state = DefaultState]

\* Mutant of ConnectBody: the session in place is not disconnected first.
ConnectBody_NoDisconnect(w, cfg) ==
    EstablishConnection([w EXCEPT !.config = cfg,
                                  !.state.connecting = TRUE,
                                  !.state.error = Null,
                                  !.reconnectAttempts = 0], TRUE)

\* connect(config), up to the await of establishConnection.
ConnectBody(w, cfg) ==
    LET w0 == IF w.state.connecting \/ w.state.connected
              THEN DisconnectBody(w) ELSE w
        w1 == [w0 EXCEPT !.config = cfg,
                         !.state.connecting = TRUE,
                         !.state.error = Null,
                         !.reconnectAttempts = 0]
    IN  EstablishConnection(w1, TRUE)

\* Mutant of OnConnectionStateChange: 'connected' does not clear connecting.
OnConnectionStateChange_KeepConnecting(w) ==
    IF w.pc = 0 THEN w
    ELSE IF w.peers[w.pc].conn = "connected"
         THEN Emit([w EXCEPT !.state.connected = TRUE], "connected", Null)
    ELSE IF w.peers[w.pc].conn = "failed"
         THEN HandleDisconnect(w, ReasonWebRTC)
    ELSE w

\* Mutant of OnConnectionStateChange: 'connected' makes no onConnected
\* callback.
OnConnectionStateChange_NoEvent(w) ==
    IF w.pc = 0 THEN w
    ELSE IF w.peers[w.pc].conn = "connected"
         THEN [w EXCEPT !.state.connected = TRUE, !.state.connecting = FALSE]
    ELSE IF w.peers[w.pc].conn = "failed"
         THEN HandleDisconnect(w, ReasonWebRTC)
    ELSE w

\* Mutant of OnConnectionStateChange: a lost transport is only logged.
OnConnectionStateChange_IgnoresFailure(w) ==
    IF w.pc = 0 THEN w
    ELSE IF w.peers[w.pc].conn = "connected"
         THEN Emit([w EXCEPT !.state.connected = TRUE,
                             !.state.connecting = FALSE],
                   "connected", Null)
    ELSE w

\* pc.onconnectionstatechange: the handler every peer connection carries
\* reads the state of the peer this.pc refers to when it runs.
OnConnectionStateChange(w) ==
    IF w.pc = 0 THEN w
    ELSE IF w.peers[w.pc].conn = "connected"
         THEN Emit([w EXCEPT !.state.connected = TRUE,
                             !.state.connecting = FALSE],
                   "connected", Null)
    ELSE IF w.peers[w.pc].conn = "failed"
         THEN HandleDisconnect(w, ReasonWebRTC)
    ELSE w

\* handleMessage for the kinds it handles without suspending.
OnControlGive(w) ==
    Emit([w EXCEPT !.state.controlling = TRUE], "controlGranted", Null)

OnControlRelease(w) ==
    Emit([w EXCEPT !.state.controlling = FALSE], "controlReleased", Null)

\* Mutant of HandleScreenResolution: width and height are swapped.
HandleScreenResolution_Swapped(w, res) ==
    Emit([w EXCEPT !.state.videoWidth = res[2],
                   !.state.videoHeight = res[1]],
         "resize", res)

HandleScreenResolution(w, res) ==
    Emit([w EXCEPT !.state.videoWidth = res[1],
                   !.state.videoHeight = res[2]],
         "resize", res)

HandleMessage(w0, kind, res) ==
    LET w == [w0 EXCEPT !.trace.msg = kind]
    IN
    CASE kind = "member/identity" -> [w EXCEPT !.memberId = "member"]
      [] kind = "screen/resolution" -> HandleScreenResolution(w, res)
      [] kind = "control/give" -> OnControlGive(w)
      [] kind = "control/release" -> OnControlRelease(w)
      [] OTHER -> w

(* --------------------------- public methods --------------------------- *)
\* connect(config): the await of disconnect() resumes in a microtask, so
\* the call runs as one step up to the await of establishConnection.
Connect(cfg) ==
    /\ FreeSockets(Cur("connect", 0)) # {}
    /\ Commit(ConnectBody(Cur("connect", 0), cfg))

\* again: the call follows another disconnect() with no step in between.
Disconnect ==
    Commit(DisconnectBody([Cur("disconnect", 0) EXCEPT
                               !.trace.again = (last.op = "disconnect")]))

\* Mutant of RequestControlBody: the request takes control optimistically.
RequestControlBody_Optimistic(w) ==
    [Send(w, "control/request") EXCEPT !.state.controlling = TRUE]

\* requestControl()
RequestControlBody(w) == Send(w, "control/request")

RequestControl ==
    Commit(RequestControlBody(Cur("requestControl", 0)))

\* Mutant of ReleaseControlBody: the flag waits for the host's release.
ReleaseControlBody_WaitsForHost(w) == Send(w, "control/release")

\* releaseControl()
ReleaseControlBody(w) ==
    [Send(w, "control/release") EXCEPT !.state.controlling = FALSE]

\* held: controlling was true when the method was called.
ReleaseControl ==
    Commit(ReleaseControlBody([Cur("releaseControl", 0) EXCEPT
                                   !.trace.held = state.controlling]))

\* sendMouseMove / sendMouseScroll / sendMouseButton / sendKeyEvent: nothing
\* happens unless controlling; the record then goes to sendBinary.
InputKinds == {"mouseMove", "mouseScroll", "mouseButton", "key"}

\* Mutant of SendInputBody: the controlling flag is not looked at.
SendInputBody_Unguarded(w, kind) == SendBinary(w, kind)

SendInputBody(w, kind) ==
    IF ~w.state.controlling THEN w ELSE SendBinary(w, kind)

SendInput(kind) ==
    Commit(SendInputBody(Cur("sendInput", 0), kind))

(* ------------------------- WebSocket callbacks ------------------------ *)
\* ws.onopen
OnOpen(w) ==
    IF w.config = "withPassword" THEN Send(w, "member/identity") ELSE w

WsOpen(a) ==
    /\ sockets[a].readyState = "connecting"
    /\ LET w == Cur("ws.onopen", a)
       IN  Commit(OnOpen([w EXCEPT !.sockets[a].readyState = "open"]))

\* ws.onmessage for a message handled without suspending: identity,
\* resolution, control/give, control/release, and the kinds handleMessage
\* only logs ("other": member/list, system/error, an undecodable frame).
\* A socket delivers messages only while it is OPEN.
SimpleKinds == {"member/identity", "control/give", "control/release", "other"}

WsMessage(a, kind) ==
    /\ sockets[a].readyState = "open"
    /\ Commit(HandleMessage(Cur("ws.onmessage", a), kind, <<0, 0>>))

WsResolution(a, res) ==
    /\ sockets[a].readyState = "open"
    /\ Commit(HandleMessage(Cur("ws.onmessage", a), "screen/resolution", res))

\* Mutant of HandleSignalCandidate: a candidate that finds no peer
\* connection ends the session.
HandleSignalCandidate_Fatal(w) ==
    IF w.pc = 0
    THEN HandleDisconnect([w EXCEPT !.trace.msg = "signal/candidate"],
                          ReasonClosed)
    ELSE [w EXCEPT !.trace.msg = "signal/candidate"]

\* signal/candidate: handleSignalCandidate adds the candidate to this.pc if
\* there is one, and swallows a failure; the client's state is not touched.
HandleSignalCandidate(w) == [w EXCEPT !.trace.msg = "signal/candidate"]

WsCandidate(a) ==
    /\ sockets[a].readyState = "open"
    /\ Commit(HandleSignalCandidate(Cur("ws.onmessage", a)))

\* ws.onerror: the transport failed, or close() was called on the socket
\* before it opened; the close event follows.
OnError(w, a) ==
    Reject([w EXCEPT !.state.error = ErrWebSocket], a, ErrWebSocket)

WsError(a) ==
    /\ sockets[a].readyState \in {"connecting", "open", "failing"}
    /\ LET w == Cur("ws.onerror", a)
       IN  Commit(OnError([w EXCEPT !.sockets[a].readyState = "closing"], a))

\* ws.onclose: the host closed the socket, or the close event of a socket
\* that failed or that the client closed is delivered.
OnClose(w) == HandleDisconnect(w, ReasonClosed)

WsClose(a) ==
    /\ sockets[a].readyState \in {"open", "closing"}
    /\ LET w == Cur("ws.onclose", a)
       IN  Commit(OnClose([w EXCEPT !.sockets[a].readyState = "closed"]))

\* The 10 s timer of socket a's establishConnection call.  The timer field
\* is dropped once the promise is settled: its callback can then only call
\* reject() on a settled promise, which does nothing.
OnTimeout(w, a) ==
    IF w.state.connecting /\ ~w.state.connected
    THEN Reject(w, a, ErrTimeout) ELSE w

TimerFire(a) ==
    /\ sockets[a].timer
    /\ LET w == Cur("timeout", a)
       IN  Commit(OnTimeout([w EXCEPT !.sockets[a].timer = FALSE], a))

\* Mutant of OnReconnectTimer: establishConnection does not look at the
\* config.
OnReconnectTimer_NoConfigCheck(w) ==
    IF FreeSockets(w) = {} THEN w ELSE EstablishConnection(w, FALSE)

\* The auto-reconnect timer: establishConnection() throws without a config
\* (the rejection is logged), and opens a new socket otherwise.
OnReconnectTimer(w) ==
    IF w.config = Null THEN w ELSE EstablishConnection(w, FALSE)

ReconnectFire ==
    /\ reconnectTimers > 0
    /\ LET w == Cur("reconnect", 0)
       IN  /\ w.config # Null => FreeSockets(w) # {}
           /\ Commit(OnReconnectTimer([w EXCEPT !.reconnectTimers = @ - 1]))

(* ------------------ signal/provide and the peer session --------------- *)
FreePeers(w) == {p \in Peers : w.peers[p].conn = "none"}
NewPeer(w) == CHOOSE p \in FreePeers(w) : \A q \in FreePeers(w) : p <= q

\* Mutant of HandleSignalProvide: the promise is resolved when the offer
\* arrives, before it is handled.
HandleSignalProvide_ResolveEarly(w, a) ==
    LET p == NewPeer(w)
        w1 == [w EXCEPT !.pc = p,
                        !.trace.msg = "signal/provide",
                        !.sockets[a].offered = TRUE,
                        !.peers[p] = [conn |-> "new", sig |-> "new",
                                      dc |-> "none", step |-> "setRemote",
                                      att |-> a, target |-> p,
                                      answered |-> FALSE]]
    IN  Resolve(w1, a)

\* handleSignalProvide up to its first await: a new RTCPeerConnection
\* replaces this.pc (the one it replaces is not closed), the handlers are
\* registered and setRemoteDescription is called on it.  att is the socket
\* whose onmessage handler is running, and whose promise it will resolve.
HandleSignalProvide(w, a) ==
    LET p == NewPeer(w)
    IN  [w EXCEPT !.pc = p,
                  !.trace.msg = "signal/provide",
                  !.sockets[a].offered = TRUE,
                  !.peers[p] = [conn |-> "new", sig |-> "new", dc |-> "none",
                                step |-> "setRemote", att |-> a,
                                target |-> p, answered |-> FALSE]]

LivePeers(w) == {p \in Peers : w.peers[p].conn \notin {"none", "closed"}}

OfferRecv(a) ==
    /\ sockets[a].readyState = "open"
    /\ FreePeers(Cur("ws.onmessage", a)) # {}
    /\ Cardinality(LivePeers(Cur("ws.onmessage", a))) < MaxLivePeers
    /\ Commit(HandleSignalProvide(Cur("ws.onmessage", a), a))

\* A further offer arrives while the peer session of an earlier one is live.
OfferRecvOver(a) ==
    /\ sockets[a].readyState = "open"
    /\ FreePeers(Cur("ws.onmessage", a)) # {}
    /\ LivePeers(Cur("ws.onmessage", a)) # {}
    /\ Commit(HandleSignalProvide(Cur("ws.onmessage", a), a))

\* The handler of peer h's offer ends, by returning or by throwing.
Ended(w, h) ==
    [w EXCEPT !.peers[h].step = "ended", !.peers[h].target = 0]

\* Mutant of Threw: a failure in a message handler ends the session.
Threw_ClosesSession(w, h) == HandleDisconnect(Ended(w, h), ReasonClosed)

\* The handler stops: an awaited operation rejected, or this.pc was null
\* when the handler resumed (TypeError).  onmessage catches and logs it,
\* and does not reach resolve().
Threw(w, h) == Ended(w, h)

\* setRemoteDescription on peer h settled; the handler resumes with
\* this.pc.createAnswer(), on the peer this.pc refers to now.
AfterSetRemote(w, h) ==
    LET w1 == [w EXCEPT !.peers[h].sig = "haveRemote"]
    IN  IF w1.pc = 0 THEN Threw(w1, h)
        ELSE [w1 EXCEPT !.peers[h].step = "answer",
                        !.peers[h].target = w1.pc]

SetRemoteDone(h) ==
    /\ peers[h].step = "setRemote"
    /\ Commit(AfterSetRemote(Cur("offer.setRemote", h), h))

\* Mutant of AfterAnswer: sending the answer marks the session connected.
AfterAnswer_MarkConnected(w, h) ==
    LET q == w.peers[h].target
    IN  IF w.peers[q].sig # "haveRemote" THEN Threw(w, h)
        ELSE LET w1 == Send([w EXCEPT !.peers[q].sig = "stable"],
                            "signal/answer")
                 sent == Len(w1.trace.wsSent) > 0 /\ w1.ws = w1.peers[q].att
                 w2 == [w1 EXCEPT !.peers[q].answered = @ \/ sent,
                                  !.state.connected = TRUE,
                                  !.state.connecting = FALSE]
             IN  Ended(Resolve(Emit(w2, "connected", Null),
                               w2.peers[h].att), h)

\* createAnswer and setLocalDescription(answer) on the target settled (one
\* step: a rejection of either is OperationRejected).  They need the
\* target's remote offer, not answered yet.  Then the answer is sent with
\* send() and handleSignalProvide returns; onmessage calls resolve() of the
\* promise of the socket the offer came on.  The host of the target's offer
\* has the answer when it went out on that offer's socket.
AfterAnswer(w, h) ==
    LET q == w.peers[h].target
    IN  IF w.peers[q].sig # "haveRemote" THEN Threw(w, h)
        ELSE LET w1 == Send([w EXCEPT !.peers[q].sig = "stable"],
                            "signal/answer")
                 sent == Len(w1.trace.wsSent) > 0 /\ w1.ws = w1.peers[q].att
                 w2 == [w1 EXCEPT !.peers[q].answered = @ \/ sent]
             IN  Ended(Resolve(w2, w2.peers[h].att), h)

\* The target's operations run in the order they were called: its own
\* setRemoteDescription first.
AnswerDone(h) ==
    /\ peers[h].step = "answer"
    /\ peers[peers[h].target].conn # "closed"
    /\ peers[peers[h].target].step # "setRemote"
    /\ Commit(AfterAnswer(Cur("offer.answer", h), h))

\* An awaited WebRTC operation rejects (an SDP the browser refuses, a
\* description that is not the peer's own).
OperationRejected(h) ==
    /\ peers[h].step \in {"setRemote", "answer"}
    /\ Commit(Threw(Cur("offer.rejected", h), h))

\* The transport of peer p comes up: it needs the answer applied locally and
\* delivered to the host.  Its connectionstatechange handler runs.
PcConnected(p) ==
    /\ peers[p].conn = "new"
    /\ peers[p].sig = "stable"
    /\ peers[p].answered
    /\ LET w == Cur("pc.connected", p)
       IN  Commit(OnConnectionStateChange(
                      [w EXCEPT !.peers[p].conn = "connected"]))

\* The transport of peer p is lost ('disconnected' or 'failed', which the
\* handler treats alike).
PcFailed(p) ==
    /\ peers[p].conn \in {"new", "connected"}
    /\ peers[p].sig = "stable"
    /\ LET w == Cur("pc.failed", p)
       IN  Commit(OnConnectionStateChange(
                      [w EXCEPT !.peers[p].conn = "failed"]))

\* pc.ondatachannel: the host's data channel arrives, open, on a connected
\* peer; this.dataChannel is replaced.
OnDataChannel(w, p) == [w EXCEPT !.dataChannel = p]

DataChannelRecv(p) ==
    /\ peers[p].conn = "connected"
    /\ peers[p].dc = "none"
    /\ LET w == Cur("pc.ondatachannel", p)
       IN  Commit(OnDataChannel([w EXCEPT !.peers[p].dc = "open"], p))

\* Mutant of OnDataChannelClose: losing the data channel ends the session.
OnDataChannelClose_TearsDown(w) == HandleDisconnect(w, ReasonClosed)

\* dataChannel.onclose, and dataChannel.onerror before it: logged only.
OnDataChannelClose(w) == w

DataChannelClose(p) ==
    /\ peers[p].dc = "open"
    /\ LET w == Cur("dc.onclose", p)
       IN  Commit(OnDataChannelClose([w EXCEPT !.peers[p].dc = "closed"]))

(* ------------- the reference host and its clients (server.js) --------- *)
\* A client of the host: a NekoClient whose socket is open and whose session
\* is connected, holding the NekoState st.
HostedClient(st) ==
    [state |-> st, config |-> "withPassword", ws |-> 1, pc |-> 0,
     dataChannel |-> 0, memberId |-> "member", reconnectAttempts |-> 0,
     sockets |-> [a \in Sockets |->
                     IF a = 1
                     THEN [readyState |-> "open", promise |-> "resolved",
                           reason |-> Null, timer |-> FALSE,
                           viaConnect |-> TRUE, offered |-> TRUE]
                     ELSE NoSocket],
     peers |-> [p \in Peers |-> NoPeer], reconnectTimers |-> 0,
     trace |-> NoTrace("hosted", 0)]

Events(w) == [i \in DOMAIN w.trace.wsSent |-> w.trace.wsSent[i].event]

\* send(client, message) and broadcast(message, excludeId) of server.js, on
\* the queues to the clients; every client here is authenticated and its
\* socket open.
HostSend(q, c, msg) == [q EXCEPT ![c] = Append(@, msg)]

RECURSIVE HostBroadcastTo(_, _, _, _)
HostBroadcastTo(q, msg, excludeId, cs) ==
    IF cs = {} THEN q
    ELSE LET c == CHOOSE x \in cs : \A y \in cs : x <= y
             q1 == IF c # excludeId THEN HostSend(q, c, msg) ELSE q
         IN  HostBroadcastTo(q1, msg, excludeId, cs \ {c})

HostBroadcast(q, msg, excludeId) == HostBroadcastTo(q, msg, excludeId, Clients)

\* handleControlRequest(client)
HandleControlRequest(h, c) ==
    IF h.controller = 0 \/ h.controller = c
    THEN [h EXCEPT !.controller = c,
                   !.toClient = HostBroadcast(
                       HostSend(@, c, [event |-> "control/give", id |-> 0]),
                       [event |-> "control/give", id |-> c], c)]
    ELSE [h EXCEPT !.toClient =
                       HostSend(@, c, [event |-> "control/requesting", id |-> 0])]

\* handleControlRelease(client)
HandleControlRelease(h, c) ==
    IF h.controller = c
    THEN [h EXCEPT !.controller = 0,
                   !.toClient = HostBroadcast(
                       HostSend(@, c, [event |-> "control/release", id |-> 0]),
                       [event |-> "control/release", id |-> 0], 0)]
    ELSE h

\* handleMessage(client, message) of server.js, for the control messages.
HostHandleMessage(h, c, event) ==
    CASE event = "control/request" -> HandleControlRequest(h, c)
      [] event = "control/release" -> HandleControlRelease(h, c)
      [] OTHER -> h

QueuesFit(h) ==
    \A c \in Clients : Len(h.toClient[c]) <= MaxQueue /\ Len(h.toHost[c]) <= MaxQueue

\* Client c calls requestControl() / releaseControl().
HostClientCall(c, release) ==
    LET w0 == HostedClient(host.state[c])
        w == IF release THEN ReleaseControlBody(w0) ELSE RequestControlBody(w0)
        h == [host EXCEPT !.state[c] = w.state,
                          !.toHost[c] = @ \o Events(w),
                          !.by = IF release THEN "releaseControl"
                                 ELSE "requestControl",
                          !.who = c, !.msg = [event |-> Null, id |-> 0]]
    IN  /\ QueuesFit(h)
        /\ host' = h
        /\ UNCHANGED <<clientVars, wire, call>>

\* The host takes client c's next message.
HostReceive(c) ==
    /\ host.toHost[c] # <<>>
    /\ LET h0 == [host EXCEPT !.toHost[c] = Tail(@), !.by = "host",
                              !.who = c,
                              !.msg = [event |-> Head(host.toHost[c]), id |-> 0]]
           h == HostHandleMessage(h0, c, Head(host.toHost[c]))
       IN  /\ QueuesFit(h)
           /\ host' = h
           /\ UNCHANGED <<clientVars, wire, call>>

\* Client c's onmessage handler takes the host's next message to it.
HostDeliver(c) ==
    /\ host.toClient[c] # <<>>
    /\ LET m == Head(host.toClient[c])
           w == HandleMessage(HostedClient(host.state[c]), m.event, <<0, 0>>)
       IN  /\ host' = [host EXCEPT !.state[c] = w.state,
                                   !.toClient[c] = Tail(@),
                                   !.by = "ws.onmessage", !.who = c,
                                   !.msg = m]
           /\ UNCHANGED <<clientVars, wire, call>>

(* -------------------- the wire codec (protocol.ts) -------------------- *)
OP_MOUSE_MOVE == 1
OP_MOUSE_SCROLL == 2
OP_MOUSE_DOWN == 3
OP_MOUSE_UP == 4
OP_KEY_DOWN == 5
OP_KEY_UP == 6

\* Math.round of the number x2 / 2 (coordinates are taken in halves, so that
\* ties occur): the nearest integer, ties towards +Infinity.
Round(x2) == (x2 + 1) \div 2

\* createMessage(opcode, size): a zeroed buffer with the opcode in byte 0.
\* Byte offset off of the code is index off + 1 here.
CreateMessage(opcode, size) ==
    [i \in 1..size |-> IF i = 1 THEN opcode % 256 ELSE 0]

\* DataView setters: the value is taken modulo 2^width (two's complement for
\* the signed ones) and stored little-endian.
SetUint8(buf, off, v) == [buf EXCEPT ![off + 1] = v % 256]

SetUint16(buf, off, v) ==
    [buf EXCEPT ![off + 1] = (v % 65536) % 256,
                ![off + 2] = (v % 65536) \div 256]

SetInt16(buf, off, v) == SetUint16(buf, off, v)

\* The four bytes of v modulo 2^32, for v within 32 signed bits.
SetUint32(buf, off, v) ==
    [buf EXCEPT ![off + 1] = v % 256,
                ![off + 2] = (v \div 256) % 256,
                ![off + 3] = (v \div 65536) % 256,
                ![off + 4] = (v \div 16777216) % 256]

\* Mutant of EncodeMouseMove: the coordinates are written big-endian.
EncodeMouseMove_BigEndian(x2, y2) ==
    [CreateMessage(OP_MOUSE_MOVE, 5) EXCEPT
         ![2] = (Round(x2) % 65536) \div 256,
         ![3] = (Round(x2) % 65536) % 256,
         ![4] = (Round(y2) % 65536) \div 256,
         ![5] = (Round(y2) % 65536) % 256]

EncodeMouseMove(x2, y2) ==
    SetUint16(SetUint16(CreateMessage(OP_MOUSE_MOVE, 5), 1, Round(x2)),
              3, Round(y2))

EncodeMouseScroll(dx2, dy2) ==
    SetInt16(SetInt16(CreateMessage(OP_MOUSE_SCROLL, 5), 1, Round(dx2)),
             3, Round(dy2))

EncodeMouseButton(button, pressed) ==
    SetUint8(CreateMessage(IF pressed THEN OP_MOUSE_DOWN ELSE OP_MOUSE_UP, 2),
             1, button)

EncodeKey(keycode, pressed) ==
    SetUint32(CreateMessage(IF pressed THEN OP_KEY_DOWN ELSE OP_KEY_UP, 5),
              1, keycode)

\* The encoder the client's input method of that kind calls.
Encode(e) ==
    CASE e.kind = "mouseMove" -> EncodeMouseMove(e.a, e.b)
      [] e.kind = "mouseScroll" -> EncodeMouseScroll(e.a, e.b)
      [] e.kind = "mouseButton" -> EncodeMouseButton(e.a, e.pressed)
      [] e.kind = "key" -> EncodeKey(e.a, e.pressed)
      [] e.kind = "message" -> CreateMessage(e.a, e.b)

(* ------------- the host's decoder (handleInputEvent, server.js) ------- *)
\* DataView getters: a read past the end of the buffer throws RangeError.
InRange(buf, off, n) == off + n <= Len(buf)
GetUint8(buf, off) == buf[off + 1]
GetUint16(buf, off) == buf[off + 1] + 256 * buf[off + 2]
GetInt16(buf, off) ==
    IF GetUint16(buf, off) >= 32768
    THEN GetUint16(buf, off) - 65536 ELSE GetUint16(buf, off)
GetUint32(buf, off) ==
    buf[off + 1] + 256 * buf[off + 2] + 65536 * buf[off + 3]
        + 16777216 * buf[off + 4]

\* What handleInputEvent does with a buffer: the xdotool command it spawns,
\* nothing, or the RangeError a getter throws out of it.
Injected(cmd, args) == [result |-> "injected", cmd |-> cmd, args |-> args]
Ignored == [result |-> "ignored", cmd |-> "none", args |-> <<>>]
ThrewRangeError == [result |-> "RangeError", cmd |-> "none", args |-> <<>>]

HandleInputEvent(buf) ==
    IF ~InRange(buf, 0, 1) THEN ThrewRangeError
    ELSE LET opcode == GetUint8(buf, 0)
         IN  CASE opcode = 1 ->
                    IF InRange(buf, 1, 2) /\ InRange(buf, 3, 2)
                    THEN Injected("mousemove",
                                  <<GetUint16(buf, 1), GetUint16(buf, 3)>>)
                    ELSE ThrewRangeError
               [] opcode = 2 ->
                    IF InRange(buf, 1, 2) /\ InRange(buf, 3, 2)
                    THEN (IF GetInt16(buf, 3) > 0 THEN Injected("click", <<5>>)
                          ELSE IF GetInt16(buf, 3) < 0
                               THEN Injected("click", <<4>>)
                          ELSE Ignored)
                    ELSE ThrewRangeError
               [] opcode = 3 ->
                    IF InRange(buf, 1, 1)
                    THEN Injected("mousedown", <<GetUint8(buf, 1)>>)
                    ELSE ThrewRangeError
               [] opcode = 4 ->
                    IF InRange(buf, 1, 1)
                    THEN Injected("mouseup", <<GetUint8(buf, 1)>>)
                    ELSE ThrewRangeError
               [] opcode = 5 ->
                    IF InRange(buf, 1, 4)
                    THEN Injected("keydown", <<GetUint32(buf, 1)>>)
                    ELSE ThrewRangeError
               [] opcode = 6 ->
                    IF InRange(buf, 1, 4)
                    THEN Injected("keyup", <<GetUint32(buf, 1)>>)
                    ELSE ThrewRangeError
               [] OTHER -> Ignored

(* ------------------- one input event over the wire -------------------- *)
\* Coordinates and scroll deltas, in halves: around zero, around a tie, and
\* around 2^16 and 2^15 where the 16-bit fields wrap.
MoveSamples == {-3, 0, 1, 3, 5, 131069, 131071, 131074}
ScrollSamples == {-6, 0, 7, 65535}
ButtonSamples == {1, 3, 9}
KeySamples == {97, 65293, 2147483647}

InputEvents ==
    [kind : {"mouseMove"}, a : MoveSamples, b : MoveSamples,
     pressed : {FALSE}]
    \cup [kind : {"mouseScroll"}, a : ScrollSamples, b : ScrollSamples,
          pressed : {FALSE}]
    \cup [kind : {"mouseButton"}, a : ButtonSamples, b : {0},
          pressed : BOOLEAN]
    \cup [kind : {"key"}, a : KeySamples, b : {0}, pressed : BOOLEAN]

\* Records made with the exported createMessage(opcode, size) alone, by a
\* sender that is not bound to the six opcodes of OP.
RawOpcodes == {0, 7, 255}
RawSizes == {1, 2, 5}
RawMessages ==
    [kind : {"message"}, a : RawOpcodes, b : RawSizes, pressed : {FALSE}]

NoWire ==
    [stage |-> "none", event |-> [kind |-> "none", a |-> 0, b |-> 0,
                                  pressed |-> FALSE],
     bytes |-> <<>>, received |-> <<>>, out |-> Ignored]

\* The client encodes the event.
EncodeInput ==
    /\ wire.stage = "input"
    /\ wire' = [wire EXCEPT !.stage = "encoded", !.bytes = Encode(wire.event)]
    /\ UNCHANGED <<clientVars, host, call>>

\* The host's data channel delivers the first n bytes of the record: all of
\* them, or a truncated buffer.
ChannelDeliver(n) ==
    /\ wire.stage = "encoded"
    /\ n \in 1..Len(wire.bytes)
    /\ wire' = [wire EXCEPT !.stage = "received",
                            !.received = SubSeq(wire.bytes, 1, n)]
    /\ UNCHANGED <<clientVars, host, call>>

\* dataChannel.onmessage of the host calls handleInputEvent.
HostInput ==
    /\ wire.stage = "received"
    /\ wire' = [wire EXCEPT !.stage = "handled",
                            !.out = HandleInputEvent(wire.received)]
    /\ UNCHANGED <<clientVars, host, call>>

(* ------------------------- the keymap (protocol.ts) ------------------- *)
KEYSYM_MAP ==
    [KeyA |-> \H61, KeyB |-> \H62, KeyC |-> \H63, KeyD |-> \H64,
     KeyE |-> \H65, KeyF |-> \H66, KeyG |-> \H67, KeyH |-> \H68,
     KeyI |-> \H69, KeyJ |-> \H6a, KeyK |-> \H6b, KeyL |-> \H6c,
     KeyM |-> \H6d, KeyN |-> \H6e, KeyO |-> \H6f, KeyP |-> \H70,
     KeyQ |-> \H71, KeyR |-> \H72, KeyS |-> \H73, KeyT |-> \H74,
     KeyU |-> \H75, KeyV |-> \H76, KeyW |-> \H77, KeyX |-> \H78,
     KeyY |-> \H79, KeyZ |-> \H7a,
     Digit0 |-> \H30, Digit1 |-> \H31, Digit2 |-> \H32, Digit3 |-> \H33,
     Digit4 |-> \H34, Digit5 |-> \H35, Digit6 |-> \H36, Digit7 |-> \H37,
     Digit8 |-> \H38, Digit9 |-> \H39,
     F1 |-> \Hffbe, F2 |-> \Hffbf, F3 |-> \Hffc0, F4 |-> \Hffc1,
     F5 |-> \Hffc2, F6 |-> \Hffc3, F7 |-> \Hffc4, F8 |-> \Hffc5,
     F9 |-> \Hffc6, F10 |-> \Hffc7, F11 |-> \Hffc8, F12 |-> \Hffc9,
     Space |-> \H20, Enter |-> \Hff0d, Tab |-> \Hff09, Escape |-> \Hff1b,
     Backspace |-> \Hff08, Delete |-> \Hffff, Insert |-> \Hff63,
     Home |-> \Hff50, End |-> \Hff57, PageUp |-> \Hff55,
     PageDown |-> \Hff56,
     ArrowUp |-> \Hff52, ArrowDown |-> \Hff54, ArrowLeft |-> \Hff51,
     ArrowRight |-> \Hff53,
     ShiftLeft |-> \Hffe1, ShiftRight |-> \Hffe2, ControlLeft |-> \Hffe3,
     ControlRight |-> \Hffe4, AltLeft |-> \Hffe9, AltRight |-> \Hffea,
     MetaLeft |-> \Hffeb, MetaRight |-> \Hffec, CapsLock |-> \Hffe5,
     Minus |-> \H2d, Equal |-> \H3d, BracketLeft |-> \H5b,
     BracketRight |-> \H5d, Backslash |-> \H5c, Semicolon |-> \H3b,
     Quote |-> \H27, Backquote |-> \H60, Comma |-> \H2c, Period |-> \H2e,
     Slash |-> \H2f]

\* String.prototype.startsWith
StartsWith(str, prefix) ==
    /\ Len(str) >= Len(prefix)
    /\ SubSeq(str, 1, Len(prefix)) = prefix

\* event.key.charCodeAt(0) of the one-character keys sampled.
CharCodeAt0 ==
    [k \in {"a", "A", "1", "~"} |->
        CASE k = "a" -> 97 [] k = "A" -> 65 [] k = "1" -> 49 [] k = "~" -> 126]

\* Mutant of GetKeysym: shift lowers the keysym of every mapped key.
GetKeysym_ShiftsEveryKey(event) ==
    IF event.code \in DOMAIN KEYSYM_MAP /\ KEYSYM_MAP[event.code] # 0
    THEN (IF event.shiftKey
          THEN KEYSYM_MAP[event.code] - \H20
          ELSE KEYSYM_MAP[event.code])
    ELSE IF Len(event.key) = 1 THEN CharCodeAt0[event.key]
    ELSE Null

\* getKeysym(event): the mapped keysym (a property of KEYSYM_MAP that is
\* truthy), lowered by 0x20 for a 'Key...' code with shift; else the char
\* code of a one-character key; else null.
GetKeysym(event) ==
    IF event.code \in DOMAIN KEYSYM_MAP /\ KEYSYM_MAP[event.code] # 0
    THEN (IF StartsWith(event.code, "Key") /\ event.shiftKey
          THEN KEYSYM_MAP[event.code] - \H20
          ELSE KEYSYM_MAP[event.code])
    ELSE IF Len(event.key) = 1 THEN CharCodeAt0[event.key]
    ELSE Null

\* KeyboardEvents of the mapped codes and of some unmapped ones, with keys
\* of one character, of several and of none.
KeyboardEvents ==
    [code : DOMAIN KEYSYM_MAP \cup {"Numpad1", "IntlBackslash", ""},
     key : DOMAIN CharCodeAt0 \cup {"Enter", ""},
     shiftKey : BOOLEAN]

(* ------------------ the signaling endpoint (client.ts) ---------------- *)
\* String.prototype.endsWith
EndsWith(str, suffix) ==
    /\ Len(str) >= Len(suffix)
    /\ SubSeq(str, Len(str) - Len(suffix) + 1, Len(str)) = suffix

\* str.slice(n): what follows the first n characters.
Slice(str, n) == SubSeq(str, n + 1, Len(str))

\* Mutant of BuildWebSocketUrl: '/ws' is appended without a look at the
\* suffix.
BuildWebSocketUrl_AlwaysAppends(url) ==
    LET cleanUrl == IF EndsWith(url, "/")
                    THEN SubSeq(url, 1, Len(url) - 1) ELSE url
        converted ==
            IF StartsWith(cleanUrl, "http://")
            THEN "ws://" \o Slice(cleanUrl, Len("http://"))
            ELSE IF StartsWith(cleanUrl, "https://")
                 THEN "wss://" \o Slice(cleanUrl, Len("https://"))
            ELSE IF /\ ~StartsWith(cleanUrl, "ws://")
                    /\ ~StartsWith(cleanUrl, "wss://")
                 THEN "wss://" \o cleanUrl
            ELSE cleanUrl
    IN  converted \o "/ws"

\* buildWebSocketUrl(url): replace(/\/$/, '') removes a slash at the very
\* end; replace('http://', 'ws://') rewrites the first occurrence, which is
\* the prefix startsWith found.
BuildWebSocketUrl(url) ==
    LET cleanUrl == IF EndsWith(url, "/")
                    THEN SubSeq(url, 1, Len(url) - 1) ELSE url
        converted ==
            IF StartsWith(cleanUrl, "http://")
            THEN "ws://" \o Slice(cleanUrl, Len("http://"))
            ELSE IF StartsWith(cleanUrl, "https://")
                 THEN "wss://" \o Slice(cleanUrl, Len("https://"))
            ELSE IF /\ ~StartsWith(cleanUrl, "ws://")
                    /\ ~StartsWith(cleanUrl, "wss://")
                 THEN "wss://" \o cleanUrl
            ELSE cleanUrl
    IN  IF ~EndsWith(converted, "/ws") THEN converted \o "/ws" ELSE converted

\* The addresses config.url is drawn from: every string of up to MaxParts
\* of these parts.
MaxParts == 3
UrlParts == {"http://", "https://", "ws://", "wss://", "HTTP://", "/", "ws",
             "a", ":"}

RECURSIVE UrlsOf(_)
UrlsOf(n) ==
    IF n = 0 THEN {""}
    ELSE UrlsOf(n - 1) \cup {u \o part : u \in UrlsOf(n - 1), part \in UrlParts}

Urls == UrlsOf(MaxParts)

(* ------------------------- pure function calls ------------------------ *)
NoCall == [fn |-> "none", arg |-> Null, returned |-> FALSE, result |-> Null]

\* sendKeyEvent asks getKeysym for the keysym of the event.
GetKeysymCall ==
    /\ call.fn = "getKeysym"
    /\ ~call.returned
    /\ call' = [call EXCEPT !.returned = TRUE, !.result = GetKeysym(call.arg)]
    /\ UNCHANGED <<clientVars, host, wire>>

\* establishConnection derives the endpoint from config.url.
BuildWebSocketUrlCall ==
    /\ call.fn = "buildWebSocketUrl"
    /\ ~call.returned
    /\ call' = [call EXCEPT !.returned = TRUE,
                            !.result = BuildWebSocketUrl(call.arg)]
    /\ UNCHANGED <<clientVars, host, wire>>

(* --------------------------- specifications --------------------------- *)
InitSession ==
    /\ state = DefaultState
    /\ config = Null
    /\ ws = 0
    /\ pc = 0
    /\ dataChannel = 0
    /\ memberId = ""
    /\ reconnectAttempts = 0
    /\ sockets = [a \in Sockets |-> NoSocket]
    /\ peers = [p \in Peers |-> NoPeer]
    /\ reconnectTimers = 0
    /\ last = NoTrace("init", 0)
    /\ host = [controller |-> 0,
               state |-> [c \in Clients |->
                             [DefaultState EXCEPT !.connected = TRUE]],
               toHost |-> [c \in Clients |-> <<>>],
               toClient |-> [c \in Clients |-> <<>>],
               by |-> "init", who |-> 0,
               msg |-> [event |-> Null, id |-> 0]]

Init ==
    /\ InitSession
    /\ wire = NoWire
    /\ call = NoCall
    /\ mirror = NoHook

\* One client and an arbitrary host and network.
Next ==
    \/ \E cfg \in Configs : Connect(cfg)
    \/ Disconnect
    \/ RequestControl
    \/ ReleaseControl
    \/ \E kind \in InputKinds : SendInput(kind)
    \/ \E a \in Sockets : WsOpen(a)
    \/ \E a \in Sockets, kind \in SimpleKinds : WsMessage(a, kind)
    \/ \E a \in Sockets, res \in Resolutions : WsResolution(a, res)
    \/ \E a \in Sockets : WsCandidate(a)
    \/ \E a \in Sockets : OfferRecv(a)
    \/ \E h \in Peers : SetRemoteDone(h)
    \/ \E h \in Peers : AnswerDone(h)
    \/ \E h \in Peers : OperationRejected(h)
    \/ \E a \in Sockets : WsError(a)
    \/ \E a \in Sockets : WsClose(a)
    \/ \E a \in Sockets : TimerFire(a)
    \/ ReconnectFire
    \/ \E p \in Peers : PcConnected(p)
    \/ \E p \in Peers : PcFailed(p)
    \/ \E p \in Peers : DataChannelRecv(p)
    \/ \E p \in Peers : DataChannelClose(p)

Spec == Init /\ [][Next]_vars

\* The reference host arbitrating control among its clients.
NextHost ==
    \/ \E c \in Clients, release \in BOOLEAN : HostClientCall(c, release)
    \/ \E c \in Clients : HostReceive(c)
    \/ \E c \in Clients : HostDeliver(c)

SpecHost == Init /\ [][NextHost]_vars

(* ----------------------------- Scenario A ----------------------------- *)
\* The lifecycle phase of the session, read off NekoState and this.pc.
Phase ==
    IF state.connected THEN "Connected"
    ELSE IF state.connecting
         THEN (IF pc # 0 THEN "Negotiating" ELSE "Connecting")
         ELSE "Idle"

\* One connect() with a password against the reference host, which answers
\* the identity with member/identity, screen/resolution and signal/provide in
\* that order (handleIdentity of server.js), whose WebRTC operations succeed
\* and whose transport comes up before the deadline; the user may ask for and
\* release control and send input meanwhile.
ScenarioStep ==
    \/ WsOpen(1)
    \/ memberId = "" /\ WsMessage(1, "member/identity")
    \/ /\ memberId # "" /\ state.videoWidth = DefaultWidth
       /\ \E res \in Resolutions : WsResolution(1, res)
    \/ /\ state.videoWidth # DefaultWidth /\ peers[1].conn = "none"
       /\ OfferRecv(1)
    \/ SetRemoteDone(1)
    \/ AnswerDone(1)
    \/ PcConnected(1)

NextA ==
    \/ sockets[1].readyState = "none" /\ Connect("withPassword")
    \/ ScenarioStep
    \/ WsCandidate(1)
    \/ /\ memberId # ""
       /\ \E kind \in {"control/give", "control/release", "other"} :
              WsMessage(1, kind)
    \/ DataChannelRecv(1)
    \/ DataChannelClose(1)
    \/ RequestControl
    \/ ReleaseControl
    \/ \E kind \in InputKinds : SendInput(kind)

SpecA == Init /\ [][NextA]_vars /\ WF_vars(ScenarioStep)

(* ------------------------ offers on one socket ------------------------ *)
\* One connection on which the host sends any number of offers, each while
\* the peer sessions of the earlier ones may still be live.
NextOffers ==
    \/ sockets[1].readyState = "none" /\ Connect("noPassword")
    \/ WsOpen(1)
    \/ OfferRecv(1)
    \/ OfferRecvOver(1)
    \/ \E h \in Peers : SetRemoteDone(h)
    \/ \E h \in Peers : AnswerDone(h)
    \/ \E p \in Peers : PcConnected(p)
    \/ \E p \in Peers : PcFailed(p)
    \/ \E p \in Peers : DataChannelRecv(p)
    \/ WsMessage(1, "control/give")

SpecOffers == Init /\ [][NextOffers]_vars

(* --------------------- the client under its hook -------------------- *)
\* The client that useNeko constructs with its callbacks; the user calls
\* connect, disconnect and releaseControl through the hook.
InitHook ==
    /\ InitSession
    /\ wire = NoWire
    /\ call = NoCall
    /\ mirror = DefaultState

SpecHook == InitHook /\ [][Next]_vars

(* ------------------------- one connect attempt ----------------------- *)
\* What is sure to happen once it can: the 10 s timer of the attempt fires,
\* the WebRTC operations a handler awaits settle, and a socket that failed
\* or was told to close delivers its error and close events.  Whether the
\* host accepts the socket, sends an offer or closes, and whether the peer
\* session's transport ever reports a state, is up to the host and the
\* network.
Pending ==
    \/ SetRemoteDone(1)
    \/ AnswerDone(1)
    \/ sockets[1].readyState = "failing" /\ WsError(1)
    \/ sockets[1].readyState = "closing" /\ WsClose(1)

\* One connect() call and the events of its socket and its peer session,
\* up to the end of the attempt.
NextAttempt ==
    \/ sockets[1].readyState = "none" /\ \E cfg \in Configs : Connect(cfg)
    \/ TimerFire(1)
    \/ Pending
    \/ WsOpen(1)
    \/ \E kind \in SimpleKinds : WsMessage(1, kind)
    \/ \E res \in Resolutions : WsResolution(1, res)
    \/ OfferRecv(1)
    \/ OperationRejected(1)
    \/ WsError(1)
    \/ WsClose(1)
    \/ PcConnected(1)
    \/ PcFailed(1)
    \/ Disconnect

SpecAttempt ==
    Init /\ [][NextAttempt]_vars /\ WF_vars(TimerFire(1)) /\ WF_vars(Pending)

(* --------------------- the codec on sample inputs --------------------- *)
InitCodec ==
    /\ InitSession
    /\ wire \in [stage : {"input"}, event : InputEvents \cup RawMessages,
                 bytes : {<<>>}, received : {<<>>}, out : {Ignored}]
    /\ call = NoCall
    /\ mirror = NoHook

NextCodec ==
    \/ EncodeInput
    \/ \E n \in 1..5 : ChannelDeliver(n)
    \/ HostInput

SpecCodec == InitCodec /\ [][NextCodec]_vars

(* --------------------- the keymap on sample events -------------------- *)
InitKeymap ==
    /\ InitSession
    /\ wire = NoWire
    /\ mirror = NoHook
    /\ call \in [fn : {"getKeysym"}, arg : KeyboardEvents,
                 returned : {FALSE}, result : {Null}]

NextKeymap == GetKeysymCall

SpecKeymap == InitKeymap /\ [][NextKeymap]_vars

(* -------------------- the endpoint of every address ------------------- *)
InitUrl ==
    /\ InitSession
    /\ wire = NoWire
    /\ mirror = NoHook
    /\ call \in [fn : {"buildWebSocketUrl"}, arg : Urls,
                 returned : {FALSE}, result : {Null}]

NextUrl == BuildWebSocketUrlCall

SpecUrl == InitUrl /\ [][NextUrl]_vars

(* ------------------------------- claims ------------------------------- *)
HasEvent(es, name) == \E i \in DOMAIN es : es[i].name = name

\* C1: in every reachable state, controlling = true implies connected =
\* true.  (The code sets controlling on any control/give message, also
\* before the session is connected.)
C1_ControllingImpliesConnected ==
    state.controlling => state.connected

\* C2: in every reachable state connecting and connected are not both true.
C2_NotConnectingAndConnected ==
    ~(state.connecting /\ state.connected)

\* The session of a second attempt (a connect over an earlier session, or an
\* automatic reconnection) has just become connected.
C2_Witness ==
    /\ last.op = "pc.connected"
    /\ state.connected
    /\ sockets[2].readyState = "open"
    /\ ws = 2

\* C3: with the reference host, at most one of its clients has controlling =
\* true at any time.  (The host broadcasts control/give with the grantee's id
\* to the other clients, and the client sets controlling on every
\* control/give.)
C3_SingleController ==
    Cardinality({c \in Clients : host.state[c].controlling}) <= 1

\* C4: controlling changes from false to true only in the step that handles
\* an inbound control/give message, and requestControl() changes no field of
\* NekoState.
C4_ControlOnlyByGrant ==
    [][/\ (~state.controlling /\ state'.controlling)
            => (last'.op = "ws.onmessage" /\ last'.msg = "control/give")
       /\ last'.op = "requestControl" => state' = state]_vars

\* A control/request went out and the grant that followed set controlling.
C4_Witness ==
    /\ last.op = "ws.onmessage"
    /\ last.msg = "control/give"
    /\ state.controlling
    /\ HasEvent(last.emitted, "controlGranted")

\* C5 (Scenario A): the phase moves only Idle -> Connecting -> Negotiating ->
\* Connected, a connected event is emitted in exactly the step that enters
\* Connected, and once connect() was called Connected is reached.
PhaseOrder ==
    {<<"Idle", "Connecting">>, <<"Connecting", "Negotiating">>,
     <<"Negotiating", "Connected">>}

C5_ScenarioA ==
    /\ [][/\ Phase' # Phase => <<Phase, Phase'>> \in PhaseOrder
          /\ HasEvent(last'.emitted, "connected")
                <=> (Phase = "Negotiating" /\ Phase' = "Connected")]_vars
    /\ (Phase = "Connecting") ~> (Phase = "Connected")

C5_Witness ==
    /\ Phase = "Connected"
    /\ last.op = "pc.connected"
    /\ HasEvent(last.emitted, "connected")
    /\ config = "withPassword"

\* C6: connected becomes true, and a connected event is emitted, only in a
\* connection-state callback of a peer session while the session this.pc
\* refers to is in the transport state 'connected'; the steps that receive
\* the offer and send the answer leave connected false and emit no connected
\* event.
OfferOps == {"offer.setRemote", "offer.answer", "offer.rejected"}

C6_ConnectedOnlyOnTransport ==
    [][/\ ((~state.connected /\ state'.connected)
              \/ HasEvent(last'.emitted, "connected"))
            => /\ last'.op \in {"pc.connected", "pc.failed"}
               /\ pc' # 0
               /\ peers'[pc'].conn = "connected"
       /\ (last'.op \in OfferOps \/ last'.msg = "signal/provide")
            => /\ state'.connected = state.connected
               /\ ~HasEvent(last'.emitted, "connected")]_vars

\* The answer has just been sent and the session is still not connected.
C6_Witness ==
    /\ last.op = "offer.answer"
    /\ Len(last.wsSent) = 1
    /\ last.wsSent[1].event = "signal/answer"
    /\ ~state.connected
    /\ state.connecting

\* C7: the promise of a connection attempt resolves only in the step that
\* completes the handling of an offer received on its socket, with the
\* answer applied; a step in which offer handling fails resolves nothing.
Resolved(a) == sockets[a].promise = "pending" /\ sockets'[a].promise = "resolved"

C7_ResolveOnlyAfterAnswer ==
    [][\A a \in Sockets :
          /\ Resolved(a)
               => /\ last'.op = "offer.answer"
                  /\ sockets[a].offered
                  /\ peers[last'.id].step = "answer"
                  /\ peers[last'.id].att = a
                  /\ peers'[last'.id].step = "ended"
                  /\ peers'[peers[last'.id].target].sig = "stable"
          /\ (last'.op = "offer.rejected" \/ last'.msg = "signal/provide")
               => sockets'[a].promise = sockets[a].promise]_vars

\* The promise awaited by connect() has just resolved, the answer sent.
C7_Witness ==
    /\ last.op = "offer.answer"
    /\ \E a \in Sockets :
          /\ sockets[a].promise = "resolved"
          /\ sockets[a].viaConnect
          /\ peers[last.id].att = a
    /\ Len(last.wsSent) = 1

\* C8: when the 10 s timer of a connect() fires and no offer has arrived on
\* its socket, the pending connect rejects with the timeout error,
\* connecting is false and the error is set.  (The timer rejects only while
\* state.connecting is true; after the socket closed, C9, it does nothing.)
C8_TimeoutRejects ==
    [][\A a \in Sockets :
          (/\ last'.op = "timeout" /\ last'.id = a
           /\ sockets[a].timer
           /\ sockets[a].promise = "pending"
           /\ sockets[a].viaConnect
           /\ ~sockets[a].offered)
          => /\ sockets'[a].promise = "rejected"
             /\ sockets'[a].reason = ErrTimeout
             /\ ~state'.connecting
             /\ state'.error # Null]_vars

\* C9 (Scenario B): when the host closes the socket of a pending connect()
\* that sent its identity and got no offer, the connect rejects, the machine
\* is Idle with the error set.  (onclose calls handleDisconnect only: the
\* promise stays pending and the error stays null.)
C9_AuthRejected ==
    [][\A a \in Sockets :
          (/\ last'.op = "ws.onclose" /\ last'.id = a
           /\ sockets[a].readyState = "open"
           /\ ws = a
           /\ config = "withPassword"
           /\ sockets[a].promise = "pending"
           /\ sockets[a].viaConnect
           /\ ~sockets[a].offered)
          => /\ sockets'[a].promise = "rejected"
             /\ state'.error # Null
             /\ ~state'.connecting /\ ~state'.connected]_vars

\* C10: when a socket reports an error while the connect() that opened it is
\* pending, the connect rejects with the channel error, and then connecting
\* is false, the error is set and an error event has been emitted.
C10_ChannelErrorRejects ==
    [][\A a \in Sockets :
          (/\ last'.op = "ws.onerror" /\ last'.id = a
           /\ sockets[a].readyState \in {"connecting", "open"}
           /\ sockets[a].promise = "pending"
           /\ sockets[a].viaConnect)
          => /\ sockets'[a].promise = "rejected"
             /\ sockets'[a].reason = ErrWebSocket
             /\ ~state'.connecting
             /\ state'.error = ErrWebSocket
             /\ HasEvent(last'.emitted, "error")]_vars

\* A pending connect() has just been rejected by a socket error, before any
\* offer.
C10_Witness ==
    /\ last.op = "ws.onerror"
    /\ sockets[last.id].promise = "rejected"
    /\ sockets[last.id].reason = ErrWebSocket
    /\ sockets[last.id].viaConnect
    /\ ~sockets[last.id].offered
    /\ HasEvent(last.emitted, "error")

(* ------------------- disconnect, teardown and input ------------------- *)
\* The client's own fields and the objects it created.
ClientFields ==
    <<state, config, ws, pc, dataChannel, memberId, reconnectAttempts,
      sockets, peers, reconnectTimers>>

\* The resources the client refers to, in the order data channel, peer
\* session, signaling channel.
OwnedResources ==
    (IF dataChannel # 0 THEN <<"dataChannel">> ELSE <<>>)
        \o (IF pc # 0 THEN <<"pc">> ELSE <<>>)
        \o (IF ws # 0 THEN <<"ws">> ELSE <<>>)

CountEvent(es, name) == Cardinality({i \in DOMAIN es : es[i].name = name})

\* C11: a disconnect() called while the connect() that opened this.ws is
\* pending settles that connect's promise (with a cancellation error) in the
\* same call.  (disconnect() only closes the socket: the promise stays
\* pending.)
C11_DisconnectCancels ==
    [][\A a \in Sockets :
          (/\ last'.op = "disconnect"
           /\ ws = a
           /\ sockets[a].promise = "pending"
           /\ sockets[a].viaConnect)
          => sockets'[a].promise = "rejected"]_vars

\* C12: a connect() called while connecting or connected closes the data
\* channel, the peer session and the socket the client refers to, resets
\* NekoState, and only then opens the new socket, which becomes this.ws.
C12_ConnectDisconnectsFirst ==
    [][(last'.op = "connect" /\ (state.connecting \/ state.connected))
          => /\ last'.closes = OwnedResources
             /\ dataChannel # 0 => peers'[dataChannel].dc # "open"
             /\ pc # 0 => peers'[pc].conn = "closed"
             /\ ws # 0 => sockets'[ws].readyState \notin {"connecting", "open"}
             /\ last'.openedAfter = Len(last'.closes)
             /\ last'.opened # 0
             /\ ws' = last'.opened
             /\ ws' # ws
             /\ sockets[ws'].readyState = "none"
             /\ sockets'[ws'].readyState = "connecting"
             /\ pc' = 0
             /\ dataChannel' = 0
             /\ state' = [DefaultState EXCEPT !.connecting = TRUE]]_vars

\* A connect() over a connected session with a data channel has closed all
\* three resources and opened the second socket.
C12_Witness ==
    /\ last.op = "connect"
    /\ last.closes = <<"dataChannel", "pc", "ws">>
    /\ last.opened = 2
    /\ ws = 2
    /\ sockets[1].readyState = "closing"

\* C13 (Scenario C): disconnect() called while connected and controlling
\* resets NekoState to its defaults and emits exactly one disconnected
\* event.  (disconnect() calls no callback at all.)
C13_DisconnectEmitsOnce ==
    [][(last'.op = "disconnect" /\ state.connected /\ state.controlling)
          => /\ state' = DefaultState
             /\ CountEvent(last'.emitted, "disconnected") = 1]_vars

\* C14: a disconnect() that follows a disconnect() with no step in between
\* leaves NekoState and every resource as the first left them, closes
\* nothing and emits no event.
C14_DisconnectIdempotent ==
    [][(last'.op = "disconnect" /\ last.op = "disconnect")
          => /\ UNCHANGED ClientFields
             /\ last'.emitted = <<>>
             /\ last'.closes = <<>>]_vars

\* A second disconnect() in a row, the first having closed a socket whose
\* close event is still to come.
C14_Witness ==
    /\ last.op = "disconnect"
    /\ last.again
    /\ \E a \in Sockets : sockets[a].readyState \in {"closing", "failing"}
    /\ state = DefaultState

\* C15: every step that tears the session down (disconnect(), a socket
\* close, a peer failure, the disconnect inside connect()) closes exactly the
\* resources the client refers to, in the order data channel, peer session,
\* socket, and leaves no reference to any of them.
C15_TeardownOrder ==
    [][(last'.op \in {"disconnect", "ws.onclose"} \/ last'.closes # <<>>)
          => /\ last'.closes = OwnedResources
             /\ dataChannel' = 0
             /\ pc' = 0
             /\ IF last'.op = "connect" THEN ws' # ws ELSE ws' = 0
             /\ dataChannel # 0 => peers'[dataChannel].dc # "open"
             /\ pc # 0 => peers'[pc].conn = "closed"
             /\ ws # 0 => sockets'[ws].readyState \notin {"connecting", "open"}]_vars

\* A peer failure has torn down a session that had all three resources.
C15_Witness ==
    /\ last.op = "pc.failed"
    /\ last.closes = <<"dataChannel", "pc", "ws">>
    /\ ws = 0 /\ pc = 0 /\ dataChannel = 0

\* C16: a disconnected event is emitted only in a step that found connected
\* true, and then exactly once; a socket close or peer failure while
\* connected is false emits none.
C16_DisconnectedOnlyIfConnected ==
    [][/\ HasEvent(last'.emitted, "disconnected")
            => (state.connected /\ CountEvent(last'.emitted, "disconnected") = 1)
       /\ (last'.op \in {"ws.onclose", "pc.failed"} /\ ~state.connected)
            => last'.emitted = <<>>]_vars

\* The socket of a connected session closed and the event was emitted.
C16_Witness ==
    /\ last.op = "ws.onclose"
    /\ HasEvent(last.emitted, "disconnected")
    /\ "ws" \in {last.closes[i] : i \in DOMAIN last.closes}
    /\ ~state.connected

\* C17: after releaseControl() controlling is false, whether or not the
\* release could be sent, and nothing else of NekoState has changed.
C17_ReleaseOptimistic ==
    [][last'.op = "releaseControl"
          => state' = [state EXCEPT !.controlling = FALSE]]_vars

\* releaseControl() was called while controlling with no open socket: no
\* message went out and the flag is cleared.
C17_Witness ==
    /\ last.op = "releaseControl"
    /\ last.held
    /\ last.wsSent = <<>>
    /\ ~state.controlling

\* C18: every releaseControl() emits a controlReleased event.
\* (releaseControl() calls no callback.)
C18_ReleaseEmits ==
    [][last'.op = "releaseControl"
          => HasEvent(last'.emitted, "controlReleased")]_vars

\* C19 (Scenario E): while controlling is false each of the four input
\* methods transmits nothing on the data channel and changes no field.
C19_InputNeedsControl ==
    [][/\ ~state.controlling
            => \A kind \in InputKinds :
                   SendInputBody(Cur("sendInput", 0), kind) = Cur("sendInput", 0)
       /\ (last'.op = "sendInput" /\ ~state.controlling)
            => /\ last'.dcSent = <<>>
               /\ UNCHANGED ClientFields]_vars

\* An input method was called without control while the data channel was
\* open: nothing was transmitted.
C19_Witness ==
    /\ last.op = "sendInput"
    /\ ~state.controlling
    /\ dataChannel # 0
    /\ peers[dataChannel].dc = "open"
    /\ last.dcSent = <<>>

\* C20: an input submitted while controlling with the data channel absent or
\* not open transmits nothing and is kept nowhere; every transmission on the
\* data channel is the single record of the input method called in that very
\* step, with the channel open, so nothing is transmitted later, also not
\* when a data channel opens.
C20_InputDroppedNotQueued ==
    [][/\ (/\ last'.op = "sendInput"
            /\ state.controlling
            /\ (dataChannel = 0 \/ peers[dataChannel].dc # "open"))
            => /\ last'.dcSent = <<>>
               /\ UNCHANGED ClientFields
       /\ last'.dcSent # <<>>
            => /\ last'.op = "sendInput"
               /\ Len(last'.dcSent) = 1
               /\ state.controlling
               /\ dataChannel # 0
               /\ peers[dataChannel].dc = "open"]_vars

\* An input was submitted while controlling and the data channel the client
\* refers to had closed: nothing went out.
C20_Witness ==
    /\ last.op = "sendInput"
    /\ state.controlling
    /\ dataChannel # 0
    /\ peers[dataChannel].dc = "closed"
    /\ last.dcSent = <<>>

(* ------------------ inbound messages and peer failure ----------------- *)
\* Resolutions a screen/resolution message is tried with in every reachable
\* state.
ResolutionSamples == {<<1920, 1080>>, <<1280, 720>>, <<640, 480>>, <<1, 4096>>}

\* C21 (Scenario D): handling a screen/resolution message sets videoWidth and
\* videoHeight to the message's, emits resize(width, height) exactly once and
\* nothing else, and leaves connected, connecting, controlling, error and
\* every other field as they were.
C21_ResolutionHandled ==
    [][/\ \A res \in ResolutionSamples :
              LET w == Cur("ws.onmessage", 0)
                  v == HandleScreenResolution(w, res)
              IN  /\ v.state = [state EXCEPT !.videoWidth = res[1],
                                              !.videoHeight = res[2]]
                  /\ v.trace.emitted = <<[name |-> "resize", arg |-> res]>>
                  /\ [v EXCEPT !.state = w.state, !.trace = w.trace] = w
       /\ (last'.op = "ws.onmessage" /\ last'.msg = "screen/resolution")
            => \E res \in Resolutions :
                  /\ state' = [state EXCEPT !.videoWidth = res[1],
                                             !.videoHeight = res[2]]
                  /\ last'.emitted = <<[name |-> "resize", arg |-> res]>>
                  /\ UNCHANGED <<config, ws, pc, dataChannel, memberId,
                                 reconnectAttempts, sockets, peers,
                                 reconnectTimers>>]_vars

\* A resolution message was handled on a connected, controlling session.
C21_Witness ==
    /\ last.op = "ws.onmessage"
    /\ last.msg = "screen/resolution"
    /\ state.videoWidth = 1920
    /\ state.videoHeight = 1080
    /\ state.connected
    /\ state.controlling
    /\ CountEvent(last.emitted, "resize") = 1

\* C22: a signal/candidate message, before the offer or whose addition
\* fails, changes no field, closes nothing and emits nothing; and a
\* candidate that arrived before the offer does not keep the offer from
\* being answered.
C22_CandidateNeverFatal ==
    /\ [][(last'.op = "ws.onmessage" /\ last'.msg = "signal/candidate")
             => /\ UNCHANGED ClientFields
                /\ last'.closes = <<>>
                /\ last'.emitted = <<>>]_vars
    /\ (last.msg = "signal/candidate" /\ pc = 0 /\ Phase = "Connecting")
          ~> (\E p \in Peers : peers[p].answered)

\* A candidate was handled while there was no peer session yet.
C22_Witness ==
    /\ last.op = "ws.onmessage"
    /\ last.msg = "signal/candidate"
    /\ pc = 0
    /\ Phase = "Connecting"
    /\ sockets[1].readyState = "open"

\* C23: no message of a socket is handled while the handler of an offer
\* received earlier on that socket is still suspended in
\* setRemoteDescription or createAnswer / setLocalDescription.  (onmessage
\* is async and nothing serializes its invocations.)
C23_MessagesInOrder ==
    [][last'.op = "ws.onmessage"
          => \A p \in Peers :
                ~(/\ peers[p].step \in {"setRemote", "answer"}
                  /\ peers[p].att = last'.id)]_vars

\* C24: when the peer session the client refers to reports 'disconnected'
\* or 'failed' while connected, the three flags become false, everything the
\* client refers to is closed in order and forgotten, the peer session and
\* the socket among them, and exactly one disconnected event with the
\* failure reason is emitted.
C24_PeerFailureDisconnects ==
    [][(last'.op = "pc.failed" /\ last'.id = pc /\ state.connected)
          => /\ ~state'.connected
             /\ ~state'.connecting
             /\ ~state'.controlling
             /\ last'.closes = OwnedResources
             /\ ws # 0
             /\ sockets'[ws].readyState \notin {"connecting", "open"}
             /\ peers'[pc].conn = "closed"
             /\ dataChannel # 0 => peers'[dataChannel].dc # "open"
             /\ ws' = 0 /\ pc' = 0 /\ dataChannel' = 0
             /\ last'.emitted =
                    <<[name |-> "disconnected", arg |-> ReasonWebRTC]>>]_vars

\* The transport of a connected, controlling session with a data channel
\* failed.
C24_Witness ==
    /\ last.op = "pc.failed"
    /\ last.emitted = <<[name |-> "disconnected", arg |-> ReasonWebRTC]>>
    /\ last.closes = <<"dataChannel", "pc", "ws">>
    /\ ~state.connected /\ ~state.connecting /\ ~state.controlling
    /\ peers[last.id].conn = "closed"

\* C25: the close (or error) of the data channel alone changes nothing of
\* NekoState but possibly controlling, closes nothing, keeps the references
\* and leaves the socket and the peer session as they were.
C25_DataChannelLossKeepsSession ==
    [][last'.op = "dc.onclose"
          => /\ [state' EXCEPT !.controlling = state.controlling] = state
             /\ last'.closes = <<>>
             /\ last'.emitted = <<>>
             /\ UNCHANGED <<config, ws, pc, dataChannel, sockets,
                            reconnectTimers>>
             /\ \A p \in Peers : peers'[p].conn = peers[p].conn]_vars

\* The data channel of a connected session closed; the session is still
\* connected on an open socket.
C25_Witness ==
    /\ last.op = "dc.onclose"
    /\ state.connected
    /\ pc # 0
    /\ peers[pc].conn = "connected"
    /\ peers[pc].dc = "closed"
    /\ ws # 0
    /\ sockets[ws].readyState = "open"

\* C26: whenever a connected session ends, by disconnect() or by a socket
\* close or peer failure, NekoState afterwards equals the defaults.
\* (handleDisconnect clears the three flags only: the resolution and the
\* error stay.)
C26_StateResetOnEnd ==
    [][(/\ state.connected
        /\ ~state'.connected
        /\ last'.op \in {"disconnect", "ws.onclose", "pc.failed"})
          => state' = DefaultState]_vars

\* C27: the client never has two live peer sessions: every peer session
\* that is neither new-born nor closed is the one this.pc refers to.
\* (handleSignalProvide overwrites this.pc without closing the old one.)
C27_OneLivePeer ==
    \A p \in Peers : peers[p].conn \notin {"none", "closed"} => pc = p

\* C28: a message that cannot be decoded, and an offer whose handling throws
\* (a rejected WebRTC operation, this.pc null when the handler resumes),
\* leave NekoState unchanged, close nothing, emit nothing and leave every
\* socket as it was, so that later messages are still handled.
HandlingThrew ==
    \/ last'.op = "ws.onmessage" /\ last'.msg = "other"
    \/ last'.op = "offer.rejected"
    \/ last'.op = "offer.setRemote" /\ pc = 0
    \/ /\ last'.op = "offer.answer"
       /\ peers[peers[last'.id].target].sig # "haveRemote"

C28_HandlerErrorsCaught ==
    [][HandlingThrew
          => /\ state' = state
             /\ last'.closes = <<>>
             /\ last'.emitted = <<>>
             /\ UNCHANGED <<config, ws, pc, dataChannel, sockets,
                            reconnectTimers>>]_vars

\* The handling of an offer threw on the socket of a pending connect(),
\* which is still open.
C28_Witness ==
    /\ last.op = "offer.rejected"
    /\ pc = last.id
    /\ ws # 0
    /\ sockets[ws].readyState = "open"
    /\ sockets[ws].promise = "pending"
    /\ state.connecting

(* ---------------------------- the wire codec --------------------------- *)
\* The fixed record size of each opcode.
RecordSize(opcode) == IF opcode \in {3, 4} THEN 2 ELSE 5

\* C29: the record encodeMouseMove produces for (x, y) is 5 bytes, opcode
\* 0x01 and then round(x) mod 2^16 and round(y) mod 2^16 as little-endian
\* uint16, and the host decodes the whole record to exactly these two values
\* (round: nearest integer, a tie going up).
C29_MouseMoveRoundTrip ==
    (wire.event.kind = "mouseMove" /\ wire.stage \in {"encoded", "handled"})
      => LET x == Round(wire.event.a) % 65536
             y == Round(wire.event.b) % 65536
         IN  /\ wire.bytes = <<1, x % 256, x \div 256, y % 256, y \div 256>>
             /\ (wire.stage = "handled" /\ wire.received = wire.bytes)
                  => wire.out = Injected("mousemove", <<x, y>>)

\* A mouse move whose x lies beyond 2^16 and whose y is negative went
\* through encoder and decoder whole.
C29_Witness ==
    /\ wire.stage = "handled"
    /\ wire.event.kind = "mouseMove"
    /\ wire.event.a = 131074
    /\ wire.event.b = -3
    /\ wire.received = wire.bytes
    /\ wire.out = Injected("mousemove", <<1, 65535>>)

\* C30: a buffer that starts with an opcode 0x01..0x06 and is shorter than
\* that opcode's record yields DecodeError(Truncated) as a value and injects
\* nothing.  (handleInputEvent checks no length: the DataView getter throws
\* RangeError out of the handler.)
C30_TruncatedIsDecodeError ==
    (/\ wire.stage = "handled"
     /\ wire.received[1] \in 1..6
     /\ Len(wire.received) < RecordSize(wire.received[1]))
      => /\ wire.out.result = "DecodeError(Truncated)"
         /\ wire.out.cmd = "none"

\* C31: a buffer whose first byte is not one of the opcodes 0x01..0x06
\* yields DecodeError(UnknownOpcode).  (The switch of handleInputEvent has
\* no default branch: such a buffer is dropped without any error.)
C31_UnknownOpcodeIsDecodeError ==
    (/\ wire.stage = "handled"
     /\ wire.received # <<>>
     /\ wire.received[1] \notin 1..6)
      => wire.out.result = "DecodeError(UnknownOpcode)"

(* ------------------------------ the keymap ---------------------------- *)
\* The letters of the alphabet in order: letter i has the uppercase ASCII
\* code 64 + i and the lowercase ASCII code 96 + i.
Letters ==
    <<"A", "B", "C", "D", "E", "F", "G", "H", "I", "J", "K", "L", "M", "N",
      "O", "P", "Q", "R", "S", "T", "U", "V", "W", "X", "Y", "Z">>

\* C32: for every alphabetic key KeyA..KeyZ the keysym is the lowercase
\* ASCII code of the letter without shift and its uppercase ASCII code (0x20
\* less) with shift; the keysym of every other mapped key is the same with
\* and without shift.
C32_KeymapLetters ==
    (call.fn = "getKeysym" /\ call.returned)
      => /\ \A i \in 1..26 :
               call.arg.code = "Key" \o Letters[i]
                 => call.result = (IF call.arg.shiftKey THEN 64 + i
                                   ELSE 96 + i)
         /\ (/\ call.arg.code \in DOMAIN KEYSYM_MAP
             /\ \A i \in 1..26 : call.arg.code # "Key" \o Letters[i])
              => /\ call.result = KEYSYM_MAP[call.arg.code]
                 /\ call.result
                      = GetKeysym([call.arg EXCEPT !.shiftKey = ~@])

\* Shift and KeyQ gave "Q", and shift and Digit1 gave "1".
C32_Witness ==
    /\ call.fn = "getKeysym"
    /\ call.returned
    /\ call.arg.shiftKey
    /\ \/ call.arg.code = "KeyQ" /\ call.result = 81
       \/ call.arg.code = "Digit1" /\ call.result = 49

(* ------------------------ endpoint derivation ------------------------- *)
\* The four steps of the derivation, each on the result of the one before.
StripSlash(u) ==
    IF EndsWith(u, "/")
    THEN SubSeq(u, 1, Len(u) - 1) ELSE u

MapScheme(u) ==
    IF StartsWith(u, "http://") THEN "ws://" \o SubSeq(u, 8, Len(u))
    ELSE IF StartsWith(u, "https://") THEN "wss://" \o SubSeq(u, 9, Len(u))
    ELSE u

HasScheme(u) == StartsWith(u, "ws://") \/ StartsWith(u, "wss://")

PrefixScheme(u) == IF HasScheme(u) THEN u ELSE "wss://" \o u

HasWsSuffix(u) == Len(u) >= 3 /\ SubSeq(u, Len(u) - 2, Len(u)) = "/ws"

AppendWs(u) == IF HasWsSuffix(u) THEN u ELSE u \o "/ws"

\* C33: the endpoint derived from an address is the address with one
\* trailing slash stripped, a leading http:// mapped to ws:// and https://
\* to wss://, wss:// prefixed when there is no ws:// or wss:// scheme, and
\* /ws appended unless it is the suffix already; it starts with ws:// or
\* wss:// and ends with /ws.
C33_EndpointDerivation ==
    (call.fn = "buildWebSocketUrl" /\ call.returned)
      => /\ call.result = AppendWs(PrefixScheme(MapScheme(StripSlash(call.arg))))
         /\ HasScheme(call.result)
         /\ HasWsSuffix(call.result)

\* An https address with a trailing slash became a wss endpoint, and an
\* address that ends with /ws/ got no second /ws.
C33_Witness ==
    /\ call.fn = "buildWebSocketUrl"
    /\ call.returned
    /\ \/ call.arg = "https://a/" /\ call.result = "wss://a/ws"
       \/ call.arg = "a/ws/" /\ call.result = "wss://a/ws"

(* ------------------ superseded channels and timers -------------------- *)
\* C34: the close event of a signaling channel the client has discarded
\* (here: one it closed while open and before any offer, which it no longer
\* references) leaves NekoState as it is, closes neither the channel nor the
\* peer session of the current attempt and makes no onDisconnected
\* callback.  (ws.onclose calls handleDisconnect, which acts on whatever the
\* client holds when the event arrives.)
C34_StaleCloseIgnored ==
    [][(/\ last'.op = "ws.onclose"
        /\ last'.id # ws
        /\ sockets[last'.id].readyState = "closing"
        /\ sockets[last'.id].promise = "pending")
         => /\ state' = state
            /\ last'.closes = <<>>
            /\ ~HasEvent(last'.emitted, "disconnected")]_vars

\* C35: when the deadline timer of a superseded connect attempt fires while
\* a newer attempt is in progress, connecting stays true, lastError is not
\* set and no error event is emitted.  (The timer looks at the shared
\* connecting flag and rejects its own promise, which disconnect() left
\* pending: the catch block of the first connect() call then runs.)
C35_StaleTimerIgnored ==
    [][(/\ last'.op = "timeout"
        /\ ws # 0
        /\ last'.id # ws
        /\ sockets[ws].promise = "pending"
        /\ state.connecting)
         => /\ state'.connecting
            /\ state'.error = state.error
            /\ ~HasEvent(last'.emitted, "error")]_vars

\* C36: at most one signaling channel of the client is connecting or open
\* at any time (one that was told to close counts as closed).  (After a
\* connect() that timed out the socket is left as it is, and the next
\* connect() or reconnect opens another one.)
C36_SingleChannel ==
    Cardinality({a \in Sockets :
                    sockets[a].readyState \in {"connecting", "open"}}) <= 1

\* C37: while the channel the client holds is that of a connect() call that
\* was rejected, connected does not become true and no connected event is
\* emitted.  (The socket of a timed-out attempt stays open: a late offer on
\* it is answered and its transport connects.)
C37_FailedStaysIdle ==
    [][(/\ ws # 0
        /\ ws' = ws
        /\ sockets[ws].viaConnect
        /\ sockets[ws].promise = "rejected"
        /\ ~state.connected)
         => /\ ~state'.connected
            /\ ~HasEvent(last'.emitted, "connected")]_vars

\* C38: a connect attempt does not stay in progress forever: once
\* connecting is true it eventually is false again, given that the deadline
\* timer fires and pending channel events are delivered.  (The timer
\* rejects a promise that the answered offer has resolved already, which
\* does nothing: connecting stays true until the transport reports.)
C38_AttemptEnds == state.connecting ~> ~state.connecting

\* C39: after disconnect() and until the next connect() (config is null
\* exactly then, and before the first connect) no step opens a signaling
\* channel, a reconnect timer that fires included, and no step schedules a
\* reconnect.
C39_NoChannelAfterDisconnect ==
    [][(config = Null /\ last'.op # "connect")
         => /\ last'.opened = 0
            /\ \A a \in Sockets :
                   sockets[a].readyState = "none"
                     => sockets'[a].readyState = "none"
            /\ reconnectTimers' <= reconnectTimers]_vars

\* A reconnect timer scheduled by a lost session fired after disconnect()
\* and opened nothing.
C39_Witness ==
    /\ last.op = "reconnect"
    /\ config = Null
    /\ last.opened = 0
    /\ reconnectAttempts > 0
    /\ ws = 0

(* ------------------------- the hook's mirror -------------------------- *)
\* C40: after every callback of the client and every call through the hook,
\* the hook's connected, connecting and controlling equal those of the
\* client's state.  (handleDisconnect calls onDisconnected only when the
\* session was connected: a close before that clears connecting in the
\* client and calls nothing.)
C40_MirrorRefinesCore ==
    mirror # NoHook
      => /\ mirror.connected = state.connected
         /\ mirror.connecting = state.connecting
         /\ mirror.controlling = state.controlling

====
